---- MODULE Spec2Model ----
(***************************************************************************)
(* Model of clients/drcachesim/tracer/instrument.cpp: the per-thread trace *)
(* buffer, the inline instrumentation planned per basic block, the flush   *)
(* routine memtrace() and the thread / process lifecycle handlers.         *)
(***************************************************************************)
EXTENDS Integers, Sequences, FiniteSets, TLC

(* ------------------------------ bounds -------------------------------- *)
\* Number of application threads.
NThreads == 2
\* Buffer capacity in records; instrument.cpp:77 sets 4096, scaled down here.
MaxRefs == 6
\* Total number of basic-block executions over all threads.
MaxBlocks == 2

Threads == 1..NThreads

(* ----------------------- constants of the program ---------------------- *)
MAX_NUM_MEM_REFS == MaxRefs
BUF_HDR_SLOTS == 1
SizeofThreadId == 4
SizeofProcessId == 4

Slots == 0..(MAX_NUM_MEM_REFS - 1)

VARIABLES
    arch,               \* build target: "X86" or "ARM" (IF_X86_ELSE / IF_ARM)
    pipe,               \* ipc_pipe: "unopened", "open", "closed"
    chan,               \* the write calls issued on ipc_pipe, in order
    pc,                 \* per thread: position in its lifecycle
    buf,                \* per thread: the records of data->buf_base[0..MAX)
    buf_ptr,            \* per thread: BUF_PTR(seg_base) - buf_base, in records
    data_num_refs,      \* per thread: data->num_refs
    thread_registered,  \* per thread: data->thread_registered
    code,               \* per thread: instrumented instructions left in the block
    nblocks,            \* number of blocks executed so far (bounded)
    num_refs,           \* the global reference count
    mutex,              \* 0 when free, else the owning thread
    tmp,                \* per thread: value of num_refs loaded for the add
    logged,             \* value logged by event_exit, -1 before
    halted,             \* the process was aborted (dr_abort or fault)
    adj,                \* per thread: what lies just past its buffer
    wild,               \* per thread: foreign memory past its buffer
    appended,           \* history: every entry the thread's inline code stored
    last_flush          \* history: how the thread's latest memtrace call ended

vars == <<arch, pipe, chan, pc, buf, buf_ptr, data_num_refs, thread_registered,
          code, nblocks, num_refs, mutex, tmp, logged, halted, adj, wild,
          appended, last_flush>>

(* ------------------------------ records -------------------------------- *)
\* trace_entry_t { type, size, addr }
Entry(type, size, addr) == [type |-> type, size |-> size, addr |-> addr]
\* memory returned by dr_raw_mem_alloc, never written
Zero == Entry("NONE", 0, 0)

dr_get_thread_id(t) == t
dr_get_process_id == NThreads + 1

(* --------------------------- instructions ------------------------------ *)
Reg == [mem |-> FALSE, size |-> 0, addr |-> 0]
Mem(size, addr) == [mem |-> TRUE, size |-> size, addr |-> addr]

\* The instructions of the observed program, by name: a load, a store, a
\* string move, an instruction without memory operands, a label-like
\* instruction inserted by an earlier pass, a predicated load of two
\* words and an exclusive store.
Instr ==
    [LD   |-> [app |-> TRUE,  srcs |-> <<Mem(4, 10)>>, dsts |-> <<Reg>>,
               predicated |-> FALSE, exclusive_store |-> FALSE],
     ST   |-> [app |-> TRUE,  srcs |-> <<Reg>>, dsts |-> <<Mem(8, 20)>>,
               predicated |-> FALSE, exclusive_store |-> FALSE],
     MOVS |-> [app |-> TRUE,  srcs |-> <<Mem(8, 20), Reg>>,
               dsts |-> <<Mem(8, 10), Reg>>,
               predicated |-> FALSE, exclusive_store |-> FALSE],
     REG  |-> [app |-> TRUE,  srcs |-> <<Reg>>, dsts |-> <<Reg>>,
               predicated |-> FALSE, exclusive_store |-> FALSE],
     META |-> [app |-> FALSE, srcs |-> <<Mem(4, 10)>>, dsts |-> <<Reg>>,
               predicated |-> FALSE, exclusive_store |-> FALSE],
     LDP  |-> [app |-> TRUE,  srcs |-> <<Mem(4, 10), Reg, Mem(4, 20)>>,
               dsts |-> <<Reg>>,
               predicated |-> TRUE, exclusive_store |-> FALSE],
     STX  |-> [app |-> TRUE,  srcs |-> <<Reg>>, dsts |-> <<Reg, Mem(4, 10)>>,
               predicated |-> FALSE, exclusive_store |-> TRUE]]

\* The basic blocks of the observed program.
Blocks ==
    { <<"REG", "LD">>,
      <<"LDP", "MOVS", "ST">>,
      <<"META", "LDP", "STX">> }

(* ---------------------- the injection planner -------------------------- *)
\* opnd_is_memory_reference(opnd)
opnd_is_memory_reference(o) == o.mem

instr_reads_memory(i) ==
    \E k \in 1..Len(i.srcs) : opnd_is_memory_reference(i.srcs[k])

instr_writes_memory(i) ==
    \E k \in 1..Len(i.dsts) : opnd_is_memory_reference(i.dsts[k])

\* instrument_mem: the entry the inline code stores for one memory operand:
\* insert_save_type, insert_save_size (drutil_opnd_mem_size_in_bytes),
\* insert_save_addr (the effective address).
instrument_mem(ref, write) ==
    Entry(IF write THEN "WRITE" ELSE "READ", ref.size, ref.addr)

\* The two operand loops of event_app_instruction: one READ per memory
\* source, in order, then one WRITE per memory destination, in order.
MemOpnds(ops) == SelectSeq(ops, opnd_is_memory_reference)

\* (mutant) the destination loop runs before the source loop
InstrEntries_DstFirst(i) ==
    [k \in 1..Len(MemOpnds(i.dsts)) |-> instrument_mem(MemOpnds(i.dsts)[k], TRUE)]
    \o
    [k \in 1..Len(MemOpnds(i.srcs)) |-> instrument_mem(MemOpnds(i.srcs)[k], FALSE)]

InstrEntries(i) ==
    [k \in 1..Len(MemOpnds(i.srcs)) |-> instrument_mem(MemOpnds(i.srcs)[k], FALSE)]
    \o
    [k \in 1..Len(MemOpnds(i.dsts)) |-> instrument_mem(MemOpnds(i.dsts)[k], TRUE)]

\* (mutant) the instr_is_app test is missing
Qualifies_IgnoreApp(i) == instr_reads_memory(i) \/ instr_writes_memory(i)

\* The two early returns of event_app_instruction.
Qualifies(i) ==
    /\ i.app
    /\ instr_reads_memory(i) \/ instr_writes_memory(i)

\* (mutant) the flag of the block is not consulted
InsertsCleanCall_Every(a, i, clean_call_inserted) ==
    /\ IF a = "X86" THEN TRUE ELSE ~i.predicated
    /\ IF a = "ARM" THEN ~i.exclusive_store ELSE TRUE

\* The condition under which event_app_instruction inserts the clean call:
\* IF_X86_ELSE(true, !instr_is_predicated) IF_ARM(&& !instr_is_exclusive_store).
InsertsCleanCall(a, i, clean_call_inserted) ==
    /\ ~clean_call_inserted
    /\ IF a = "X86" THEN TRUE ELSE ~i.predicated
    /\ IF a = "ARM" THEN ~i.exclusive_store ELSE TRUE

\* (mutant) no inline code where the clean call is suppressed
event_app_instruction_SkipSuppressed(a, i, clean_call_inserted) ==
    IF ~Qualifies(i)
    THEN [instrumented |-> FALSE, call |-> FALSE,
          clean_call_inserted |-> clean_call_inserted]
    ELSE [instrumented |-> InsertsCleanCall(a, i, FALSE),
          call |-> InsertsCleanCall(a, i, clean_call_inserted),
          clean_call_inserted |->
              clean_call_inserted \/ InsertsCleanCall(a, i, clean_call_inserted)]

\* event_app_instruction for one instruction, given user_data's flag:
\* whether inline code is inserted, whether the clean call is inserted, and
\* the flag afterwards.
event_app_instruction(a, i, clean_call_inserted) ==
    IF ~Qualifies(i)
    THEN [instrumented |-> FALSE, call |-> FALSE,
          clean_call_inserted |-> clean_call_inserted]
    ELSE [instrumented |-> TRUE,
          call |-> InsertsCleanCall(a, i, clean_call_inserted),
          clean_call_inserted |->
              clean_call_inserted \/ InsertsCleanCall(a, i, clean_call_inserted)]

\* The instrumentation of one basic block: event_bb_app2app clears the
\* flag, then event_app_instruction runs on each instruction in order.
RECURSIVE PlanFrom(_, _, _, _)
PlanFrom(a, bb, k, clean_call_inserted) ==
    IF k > Len(bb) THEN <<>>
    ELSE LET r == event_app_instruction(a, Instr[bb[k]], clean_call_inserted)
         IN  <<[ins |-> bb[k], instrumented |-> r.instrumented, call |-> r.call]>>
             \o PlanFrom(a, bb, k + 1, r.clean_call_inserted)

event_bb_app2app(a, bb) == PlanFrom(a, bb, 1, FALSE)

\* The entries the inline code of a planned instruction stores when it runs.
ItemEntries(item) ==
    IF item.instrumented THEN InstrEntries(Instr[item.ins]) ELSE <<>>

(* ------------------------- memory and the pipe ------------------------- *)
\* The thread has a buffer: allocated by event_thread_init, not yet freed.
Live(u) == pc[u] \notin {"uninit", "freed"}

NoAdj == [kind |-> "none", thr |-> 0]

\* What a store past the end of t's buffer can hit, when that is not yet
\* known: an unmapped page (a fault), the buffer of another thread that
\* dr_raw_mem_alloc placed right behind it, or other writable memory.
OobTargets(t, oob) ==
    IF ~oob \/ adj[t].kind # "none" THEN {adj[t]}
    ELSE {[kind |-> "fault", thr |-> 0], [kind |-> "wild", thr |-> 0]}
         \cup {[kind |-> "thread", thr |-> u] : u \in {v \in Threads \ {t} : Live(v)}}

\* The record at buf_base[s] as thread t reads it.
MemRead(b, w, a, t, s) ==
    IF s < MAX_NUM_MEM_REFS THEN b[t][s]
    ELSE IF a[t].kind = "thread" THEN b[a[t].thr][s - MAX_NUM_MEM_REFS]
    ELSE w[t][s - MAX_NUM_MEM_REFS]

\* buf_base[0..p) can be read: all of it lies in mapped memory.
Readable(a, t, p) ==
    \/ p <= MAX_NUM_MEM_REFS
    \/ /\ p <= 2 * MAX_NUM_MEM_REFS
       /\ \/ a[t].kind = "wild"
          \/ a[t].kind = "thread" /\ Live(a[t].thr)

\* The buffers after thread t stored the entries es at buf_base[p..p+n),
\* n of them; a[t] says where the stores past the end land.
StoreBuf(b, a, t, p, es, n) ==
    [u \in Threads |-> [s \in Slots |->
        IF u = t /\ s >= p /\ s < p + n THEN es[s - p + 1]
        ELSE IF /\ a[t].kind = "thread" /\ a[t].thr = u
                /\ s + MAX_NUM_MEM_REFS >= p /\ s + MAX_NUM_MEM_REFS < p + n
             THEN es[s + MAX_NUM_MEM_REFS - p + 1]
        ELSE b[u][s]]]

StoreWild(w, a, t, p, es, n) ==
    [w EXCEPT ![t] = [s \in Slots |->
        IF /\ a[t].kind = "wild"
           /\ s + MAX_NUM_MEM_REFS >= p /\ s + MAX_NUM_MEM_REFS < p + n
        THEN es[s + MAX_NUM_MEM_REFS - p + 1]
        ELSE w[t][s]]]

\* One call of ipc_pipe.write by thread t, from pid_info ("reg") or from
\* buf_base ("main"): req records were handed over, recs are the ones
\* transferred.
Msg(t, kind, full, n) ==
    [from |-> t, kind |-> kind, recs |-> SubSeq(full, 1, n), req |-> Len(full)]

\* The numbers of records a write of n records can transfer: all of them,
\* or fewer (nothing, or all but the last).
WriteCounts(n) == {0, n - 1, n} \cap 0..n

\* DR_ASSERT(x): the process is aborted when x is false.
DR_ASSERT(x) == halted' = ~x

\* (mutant) the cursor moves by one record per instruction
insert_update_buf_ptr_One(p, adjust) == p + (IF adjust > 0 THEN 1 ELSE 0)

\* insert_update_buf_ptr: the one add to BUF_PTR that ends the inline code
\* of an instruction, adjust being the number of entries it stored.
insert_update_buf_ptr(p, adjust) == p + adjust

(* ------------------------------ memtrace ------------------------------- *)
\* The header entry memtrace writes into the reserved slot.
Header(t) == Entry("THREAD", SizeofThreadId, dr_get_thread_id(t))
PidEntry == Entry("PID", SizeofProcessId, dr_get_process_id)

\* (mutant) the threshold is one record too low
Deferred_TooLow(delay, p) == delay /\ p < (MAX_NUM_MEM_REFS \div 2) - 1

\* (mutant) the comparison is <= instead of <
Deferred_Inclusive(delay, p) == delay /\ p <= (MAX_NUM_MEM_REFS \div 2)

\* The test that delays the dump: (buf_ptr - buf_base) < MAX_NUM_MEM_REFS / 2.
Deferred(delay, p) == delay /\ p < (MAX_NUM_MEM_REFS \div 2)

\* (mutant) the flag is never set
MarkRegistered_Never(t) == thread_registered

\* data->thread_registered = true
MarkRegistered(t) == [thread_registered EXCEPT ![t] = TRUE]

\* The loop over buf_base..buf_ptr that counts data->num_refs.
CountRefs(t, p) == [data_num_refs EXCEPT ![t] = data_num_refs[t] + p]

\* The range handed to the second write: buf_base[0..p), towrite bytes.
MainRange(b, w, a, t, p) == [s \in 1..p |-> MemRead(b, w, a, t, s - 1)]

\* (mutant) the cursor is reset to the start of the buffer
ResetPtr_ToBase(t) == [buf_ptr EXCEPT ![t] = 0]

\* BUF_PTR(data->seg_base) = data->buf_base + BUF_HDR_SLOTS
ResetPtr(t) == [buf_ptr EXCEPT ![t] = BUF_HDR_SLOTS]

\* (mutant) the cursor is reset whatever the write returned
PtrAfterWrite_Always(t, p, n2) == ResetPtr(t)

\* BUF_PTR after the second write: the reset is reached only when the
\* write transferred everything, the assert stops the process otherwise.
PtrAfterWrite(t, p, n2) ==
    IF n2 >= p THEN ResetPtr(t) ELSE [buf_ptr EXCEPT ![t] = p]

\* (mutant) the header is stored before the test that delays the dump
DelayedReturn_HeaderFirst(t, b, p) ==
    /\ buf' = [b EXCEPT ![t][0] = Header(t)]
    /\ buf_ptr' = [buf_ptr EXCEPT ![t] = p]
    /\ last_flush' = [last_flush EXCEPT ![t] = "deferred"]
    /\ UNCHANGED <<data_num_refs, thread_registered, chan, halted>>

\* memtrace when the dump is delayed: it returns at once. b and p are the
\* buffers and the cursor as the inline code left them.
DelayedReturn(t, b, p) ==
    /\ buf' = b
    /\ buf_ptr' = [buf_ptr EXCEPT ![t] = p]
    /\ last_flush' = [last_flush EXCEPT ![t] = "deferred"]
    /\ UNCHANGED <<data_num_refs, thread_registered, chan, halted>>

\* memtrace when the dump is performed: header, registration on the first
\* dump, count, main write, reset.
Dump(t, b, w, a, p) ==
    LET b2 == [b EXCEPT ![t][0] = Header(t)]
        first == ~thread_registered[t]
        pid_info == <<Header(t), PidEntry>>
        main == MainRange(b2, w, a, t, p)
        canread == IF Readable(a, t, p) THEN p ELSE MAX_NUM_MEM_REFS
    IN  \E n1 \in (IF first THEN WriteCounts(2) ELSE {2}),
           n2 \in (IF canread = p THEN WriteCounts(p) ELSE {0, canread}) :
          /\ buf' = b2
          /\ thread_registered' = MarkRegistered(t)
          /\ last_flush' = [last_flush EXCEPT ![t] =
                 IF n1 >= 2 /\ n2 >= p THEN "sent" ELSE "failed"]
          /\ IF n1 < 2
             THEN /\ chan' = Append(chan, Msg(t, "reg", pid_info, n1))
                  /\ DR_ASSERT(FALSE)
                  /\ buf_ptr' = [buf_ptr EXCEPT ![t] = p]
                  /\ UNCHANGED data_num_refs
             ELSE /\ chan' = Append(IF first
                                    THEN Append(chan, Msg(t, "reg", pid_info, 2))
                                    ELSE chan,
                                    Msg(t, "main", main, n2))
                  /\ data_num_refs' = CountRefs(t, p)
                  /\ DR_ASSERT(n2 >= p)
                  /\ buf_ptr' = PtrAfterWrite(t, p, n2)

\* memtrace(drcontext, delay) run by thread t when the buffers are b, the
\* foreign memory w, the layout a and t's BUF_PTR is buf_base + p.
memtrace(t, delay, b, w, a, p) ==
    IF Deferred(delay, p) THEN DelayedReturn(t, b, p) ELSE Dump(t, b, w, a, p)

(* ------------------------------ actions -------------------------------- *)
Init ==
    /\ arch \in {"X86", "ARM"}
    /\ pipe = "unopened"
    /\ chan = <<>>
    /\ pc = [t \in Threads |-> "uninit"]
    /\ buf = [t \in Threads |-> [s \in Slots |-> Zero]]
    /\ buf_ptr = [t \in Threads |-> 0]
    /\ data_num_refs = [t \in Threads |-> 0]
    /\ thread_registered = [t \in Threads |-> FALSE]
    /\ code = [t \in Threads |-> <<>>]
    /\ nblocks = 0
    /\ num_refs = 0
    /\ mutex = 0
    /\ tmp = [t \in Threads |-> 0]
    /\ logged = -1
    /\ halted = FALSE
    /\ adj = [t \in Threads |-> NoAdj]
    /\ wild = [t \in Threads |-> [s \in Slots |-> Zero]]
    /\ appended = [t \in Threads |-> <<>>]
    /\ last_flush = [t \in Threads |-> "none"]

\* dr_init: opens the pipe for writing and registers the events.
dr_init ==
    /\ ~halted
    /\ pipe = "unopened"
    /\ \E ok \in BOOLEAN :
         /\ pipe' = IF ok THEN "open" ELSE pipe
         /\ DR_ASSERT(ok)
    /\ UNCHANGED <<arch, chan, pc, buf, buf_ptr, data_num_refs, thread_registered,
                   code, nblocks, num_refs, mutex, tmp, logged, adj, wild,
                   appended, last_flush>>

\* (mutant) the cursor starts at buf_base, no slot is left for the header
event_thread_init_NoHeaderSlot(t) ==
    /\ ~halted
    /\ pipe = "open"
    /\ pc[t] = "uninit"
    /\ \A u \in Threads : u < t => pc[u] # "uninit"
    /\ \E ok \in BOOLEAN :
         /\ DR_ASSERT(ok)
         /\ IF ok
            THEN /\ pc' = [pc EXCEPT ![t] = "active"]
                 /\ buf' = [buf EXCEPT ![t] = [s \in Slots |-> Zero]]
                 /\ buf_ptr' = [buf_ptr EXCEPT ![t] = 0]
                 /\ thread_registered' = [thread_registered EXCEPT ![t] = FALSE]
                 /\ data_num_refs' = [data_num_refs EXCEPT ![t] = 0]
            ELSE UNCHANGED <<pc, buf, buf_ptr, thread_registered, data_num_refs>>
    /\ UNCHANGED <<arch, pipe, chan, code, nblocks, num_refs, mutex, tmp, logged,
                   adj, wild, appended, last_flush>>

\* event_thread_init: allocates the per-thread data and the buffer.
\* Threads are numbered in the order in which they start.
event_thread_init(t) ==
    /\ ~halted
    /\ pipe = "open"
    /\ pc[t] = "uninit"
    /\ \A u \in Threads : u < t => pc[u] # "uninit"
    /\ \E ok \in BOOLEAN :
         /\ DR_ASSERT(ok)
         /\ IF ok
            THEN /\ pc' = [pc EXCEPT ![t] = "active"]
                 /\ buf' = [buf EXCEPT ![t] = [s \in Slots |-> Zero]]
                 /\ buf_ptr' = [buf_ptr EXCEPT ![t] = BUF_HDR_SLOTS]
                 /\ thread_registered' = [thread_registered EXCEPT ![t] = FALSE]
                 /\ data_num_refs' = [data_num_refs EXCEPT ![t] = 0]
            ELSE UNCHANGED <<pc, buf, buf_ptr, thread_registered, data_num_refs>>
    /\ UNCHANGED <<arch, pipe, chan, code, nblocks, num_refs, mutex, tmp, logged,
                   adj, wild, appended, last_flush>>

\* The thread reaches a basic block; the block is instrumented
\* (event_bb_app2app, event_app_instruction per instruction) before it runs.
EnterBlock(t) ==
    /\ ~halted
    /\ pc[t] = "active"
    /\ code[t] = <<>>
    /\ nblocks < MaxBlocks
    /\ \E bb \in Blocks :
         code' = [code EXCEPT ![t] = event_bb_app2app(arch, bb)]
    /\ nblocks' = nblocks + 1
    /\ UNCHANGED <<arch, pipe, chan, pc, buf, buf_ptr, data_num_refs,
                   thread_registered, num_refs, mutex, tmp, logged, halted, adj,
                   wild, appended, last_flush>>

\* The thread runs the next instruction of its block: the inline code
\* stores the instruction's entries at BUF_PTR and advances BUF_PTR
\* (insert_update_buf_ptr), then the clean call runs if one was inserted.
ExecInstr(t) ==
    /\ ~halted
    /\ pc[t] = "active"
    /\ code[t] # <<>>
    /\ LET item == Head(code[t])
           es == ItemEntries(item)
           p == buf_ptr[t]
           oob == p + Len(es) > MAX_NUM_MEM_REFS
       IN  \E tgt \in OobTargets(t, oob) :
             LET a1 == [adj EXCEPT ![t] = tgt]
                 fault == oob /\ ~(tgt.kind # "fault" /\ Readable(a1, t, p + Len(es)))
                 \* the stores that complete: all of them, or those in bounds
                 n == IF fault
                      THEN IF p >= MAX_NUM_MEM_REFS THEN 0 ELSE MAX_NUM_MEM_REFS - p
                      ELSE Len(es)
                 b1 == StoreBuf(buf, a1, t, p, es, n)
                 w1 == StoreWild(wild, a1, t, p, es, n)
             IN  /\ appended' = [appended EXCEPT ![t] = @ \o SubSeq(es, 1, n)]
                 /\ IF fault
                    THEN /\ halted' = TRUE
                         /\ buf' = b1
                         /\ UNCHANGED <<adj, wild, code, buf_ptr, data_num_refs,
                                        thread_registered, chan, last_flush>>
                    ELSE /\ adj' = a1
                         /\ wild' = w1
                         /\ code' = [code EXCEPT ![t] = Tail(code[t])]
                         /\ IF item.call
                            THEN memtrace(t, TRUE, b1, w1, a1,
                                          insert_update_buf_ptr(p, Len(es)))
                            ELSE /\ buf' = b1
                                 /\ buf_ptr' = [buf_ptr EXCEPT ![t] =
                                                   insert_update_buf_ptr(p, Len(es))]
                                 /\ UNCHANGED <<data_num_refs, thread_registered,
                                                chan, halted, last_flush>>
    /\ UNCHANGED <<arch, pipe, pc, nblocks, num_refs, mutex, tmp, logged>>

\* The thread ends and DR calls event_thread_exit for it, which starts
\* with memtrace(drcontext, false).
ExitFlush(t) ==
    /\ ~halted
    /\ pc[t] = "active"
    /\ code[t] = <<>>
    /\ memtrace(t, FALSE, buf, wild, adj, buf_ptr[t])
    /\ pc' = [pc EXCEPT ![t] = IF halted' THEN "active" ELSE "exit_lock"]
    /\ UNCHANGED <<arch, pipe, code, nblocks, num_refs, mutex, tmp, logged, adj,
                   wild, appended>>

\* (mutant) the lock is taken without waiting for its owner
dr_mutex_lock_NoWait(t) == mutex' = t

\* event_thread_exit: dr_mutex_lock(mutex)
dr_mutex_lock(t) ==
    /\ mutex = 0
    /\ mutex' = t

\* (mutant) the buffer is released before the counter is folded
ExitLock_FreeFirst(t) ==
    /\ ~halted
    /\ pc[t] = "exit_lock"
    /\ pc' = [pc EXCEPT ![t] = "freed"]
    /\ UNCHANGED <<arch, pipe, chan, buf, buf_ptr, data_num_refs,
                   thread_registered, code, nblocks, num_refs, mutex, tmp, logged,
                   halted, adj, wild, appended, last_flush>>

ExitLock(t) ==
    /\ ~halted
    /\ pc[t] = "exit_lock"
    /\ dr_mutex_lock(t)
    /\ pc' = [pc EXCEPT ![t] = "exit_load"]
    /\ UNCHANGED <<arch, pipe, chan, buf, buf_ptr, data_num_refs,
                   thread_registered, code, nblocks, num_refs, tmp, logged,
                   halted, adj, wild, appended, last_flush>>

\* event_thread_exit: num_refs += data->num_refs, the load of num_refs
ExitLoad(t) ==
    /\ ~halted
    /\ pc[t] = "exit_load"
    /\ tmp' = [tmp EXCEPT ![t] = num_refs]
    /\ pc' = [pc EXCEPT ![t] = "exit_store"]
    /\ UNCHANGED <<arch, pipe, chan, buf, buf_ptr, data_num_refs,
                   thread_registered, code, nblocks, num_refs, mutex, logged,
                   halted, adj, wild, appended, last_flush>>

\* event_thread_exit: num_refs += data->num_refs, the store of the sum
ExitStore(t) ==
    /\ ~halted
    /\ pc[t] = "exit_store"
    /\ num_refs' = tmp[t] + data_num_refs[t]
    /\ pc' = [pc EXCEPT ![t] = "exit_unlock"]
    /\ UNCHANGED <<arch, pipe, chan, buf, buf_ptr, data_num_refs,
                   thread_registered, code, nblocks, mutex, tmp, logged, halted,
                   adj, wild, appended, last_flush>>

\* event_thread_exit: dr_mutex_unlock(mutex), then
\* dr_raw_mem_free(buf_base) and dr_thread_free(data)
ExitRelease(t) ==
    /\ ~halted
    /\ pc[t] = "exit_unlock"
    /\ mutex' = 0
    /\ pc' = [pc EXCEPT ![t] = "freed"]
    /\ UNCHANGED <<arch, pipe, chan, buf, buf_ptr, data_num_refs,
                   thread_registered, code, nblocks, num_refs, tmp, logged,
                   halted, adj, wild, appended, last_flush>>

\* When DR calls the exit event: at process shutdown, once every thread
\* that started has run its thread-exit event.
AllThreadsExited ==
    /\ \A t \in Threads : pc[t] \in {"uninit", "freed"}
    /\ \E t \in Threads : pc[t] = "freed"

\* (mutant) the exit handler logs the count and leaves the pipe open
event_exit_NoClose ==
    /\ ~halted
    /\ pipe = "open"
    /\ AllThreadsExited
    /\ logged = -1
    /\ logged' = num_refs
    /\ UNCHANGED <<arch, pipe, chan, pc, buf, buf_ptr, data_num_refs,
                   thread_registered, code, nblocks, num_refs, mutex, tmp, halted,
                   adj, wild, appended, last_flush>>

\* event_exit: DR calls it once every thread has exited; it logs num_refs
\* and closes the pipe.
event_exit ==
    /\ ~halted
    /\ pipe = "open"
    /\ AllThreadsExited
    /\ logged' = num_refs
    /\ pipe' = "closed"
    /\ UNCHANGED <<arch, chan, pc, buf, buf_ptr, data_num_refs,
                   thread_registered, code, nblocks, num_refs, mutex, tmp, halted,
                   adj, wild, appended, last_flush>>

Next ==
    \/ dr_init
    \/ event_exit
    \/ \E t \in Threads :
         \/ event_thread_init(t)
         \/ EnterBlock(t)
         \/ ExecInstr(t)
         \/ ExitFlush(t)
         \/ ExitLock(t)
         \/ ExitLoad(t)
         \/ ExitStore(t)
         \/ ExitRelease(t)

Spec == Init /\ [][Next]_vars

FairSpec ==
    /\ Spec
    /\ \A t \in Threads :
         /\ WF_vars(ExecInstr(t))
         /\ WF_vars(ExitFlush(t))
         /\ WF_vars(ExitLock(t))
         /\ WF_vars(ExitLoad(t))
         /\ WF_vars(ExitStore(t))
         /\ WF_vars(ExitRelease(t))

(* ----------------------- what the channel has seen --------------------- *)
IsPrefix(x, y) == Len(x) <= Len(y) /\ SubSeq(y, 1, Len(x)) = x

\* The write calls of thread t, in order, and those from its buffer.
FromT(t) == SelectSeq(chan, LAMBDA m : m.from = t)
MainOf(t) == SelectSeq(chan, LAMBDA m : m.from = t /\ m.kind = "main")

\* The records transferred by a sequence of write calls, in order.
RECURSIVE ConcatRecs(_)
ConcatRecs(ms) ==
    IF ms = <<>> THEN <<>> ELSE Head(ms).recs \o ConcatRecs(Tail(ms))

IsRW(e) == e.type \in {"READ", "WRITE"}

\* The READ/WRITE records of t's main messages, in the order sent.
SentRW(t) == SelectSeq(ConcatRecs(MainOf(t)), IsRW)

\* The entries between the header slot and t's cursor, as t reads them.
Pending(t) == [s \in 1..(buf_ptr[t] - 1) |-> MemRead(buf, wild, adj, t, s)]

\* Some thread has stored past the end of its buffer.
Overflowed == \E t \in Threads : adj[t].kind # "none"

(* ------------------------------ claims --------------------------------- *)

\* C1: for every thread T the first message T sends is the two-entry
\* message THREAD(T's thread id), PID(process id); it precedes T's first
\* main message, is sent exactly once (every later message of T is a main
\* message and no PID record recurs), and the registered flag goes from
\* false to true at T's first flush that is not deferred, never back.
C1_Pair(t) ==
    <<Entry("THREAD", SizeofThreadId, dr_get_thread_id(t)),
      Entry("PID", SizeofProcessId, dr_get_process_id)>>

C1_Inv ==
    \A t \in Threads :
        LET ms == FromT(t)
            recs == ConcatRecs(ms)
        IN  /\ thread_registered[t] <=> ms # <<>>
            /\ ms # <<>> => ms[1].kind = "reg" /\ IsPrefix(ms[1].recs, C1_Pair(t))
            /\ Len(ms) >= 2 => ms[1].recs = C1_Pair(t)
            /\ \A i \in 2..Len(ms) : ms[i].kind = "main"
            /\ \A i \in 3..Len(recs) : recs[i].type # "PID"

C1_Act ==
    \A t \in Threads :
        /\ thread_registered[t] => thread_registered'[t]
        /\ ~thread_registered[t] /\ thread_registered'[t] =>
             /\ last_flush'[t] \in {"sent", "failed"}
             /\ Len(chan') > Len(chan)
             /\ chan'[Len(chan) + 1].from = t
             /\ chan'[Len(chan) + 1].kind = "reg"

\* C1: the first thing a thread sends is its THREAD+PID pair, sent once,
\* and the thread is marked registered by the flush that sends it.
C1_FirstPairOnce == [] C1_Inv /\ [][C1_Act]_vars

\* A thread that sent its pair and then two main messages, and another
\* thread whose only flush was the one at its exit.
C1_Witness ==
    \E t, u \in Threads :
        /\ Len(FromT(t)) >= 3
        /\ pc[u] = "freed" /\ Len(FromT(u)) = 2 /\ appended[u] = <<>>

\* The thread's exit flush has completed.
Flushed(t) == pc[t] \in {"exit_lock", "exit_load", "exit_store", "exit_unlock", "freed"}

\* C2: for every thread, the READ/WRITE records of its main messages, in
\* the order sent, are exactly the entries its inline code appended, in the
\* same order: what was sent is always a prefix of what was appended, what
\* was sent followed by what is still buffered is what was appended, and
\* once the exit flush is done everything appended has been sent.
C2_Holds(t) ==
    /\ IsPrefix(SentRW(t), appended[t])
    /\ ~halted /\ Live(t) => SentRW(t) \o Pending(t) = appended[t]
    /\ Flushed(t) => SentRW(t) = appended[t]

\* C2: for every thread, what was sent is a prefix of what was appended, in
\* the same order, and all of it once the thread is flushed.
C2_RoundTrip == \A t \in Threads : C2_Holds(t)

\* The same, as long as no thread has stored past the end of its buffer.
C2_RoundTripInBounds == ~Overflowed => C2_RoundTrip

\* Thread t takes an ExecInstr step whose instruction carries the clean call.
CleanCallStep(t) ==
    /\ pc[t] = "active"
    /\ code[t] # <<>>
    /\ Head(code[t]).call
    /\ code'[t] = Tail(code[t])

\* BUF_PTR - buf_base when that clean call runs, after the inline stores.
OccupancyAtCall(t) == buf_ptr[t] + Len(ItemEntries(Head(code[t])))

\* C3: a clean call (a flush with deferral allowed) that finds the
\* occupancy, BUF_PTR - buf_base, below MAX_NUM_MEM_REFS / 2 sends nothing
\* on the channel, neither the THREAD+PID message nor a main message.
C3_Act ==
    \A t \in Threads :
        CleanCallStep(t) /\ OccupancyAtCall(t) < MAX_NUM_MEM_REFS \div 2
            => chan' = chan /\ thread_registered' = thread_registered

\* C3: every step satisfies C3_Act, a deferred clean call sends nothing.
C3_NoSendWhenDeferred == [][C3_Act]_vars

\* A clean call has just been deferred with an entry in the buffer, and
\* the thread has sent nothing.
C3_Witness ==
    \E t \in Threads :
        /\ last_flush[t] = "deferred"
        /\ buf_ptr[t] > BUF_HDR_SLOTS
        /\ FromT(t) = <<>>

\* Thread t completes the flush of its exit handler in this step.
ExitFlushStep(t) == pc[t] = "active" /\ pc'[t] = "exit_lock"

\* C4: the flush at thread exit is never deferred: whatever the occupancy
\* it sends a main message, which holds the header and every entry still in
\* the buffer, and it empties the buffer; once it is done, every entry the
\* thread appended has been sent.
C4_Act ==
    \A t \in Threads :
        /\ pc[t] = "active" /\ code[t] = <<>> /\ last_flush'[t] # last_flush[t]
               => last_flush'[t] # "deferred"
        /\ ExitFlushStep(t) =>
               /\ Len(chan') > Len(chan)
               /\ LET m == chan'[Len(chan')]
                  IN  /\ m.from = t /\ m.kind = "main"
                      /\ m.recs = <<Header(t)>> \o Pending(t)
               /\ buf_ptr'[t] = BUF_HDR_SLOTS

C4_Inv == \A t \in Threads : Flushed(t) => SentRW(t) = appended[t]

\* C4: every exit flush sends the main message and drains the buffer.
C4_ExitFlushDrains == [][C4_Act]_vars /\ [] C4_Inv

\* The same, as long as no thread has stored past the end of its buffer.
C4_ExitFlushDrainsInBounds == [][C4_Act]_vars /\ [] (~Overflowed => C4_Inv)

\* The number of positions of a sequence that hold e.
Count(seq, e) == Cardinality({i \in DOMAIN seq : seq[i] = e})

\* The first k entries thread t appended have all been sent.
AllSent(t, k) ==
    /\ Len(appended[t]) >= k
    /\ \A i \in 1..k :
          Count(SentRW(t), appended[t][i])
              >= Count(SubSeq(appended[t], 1, k), appended[t][i])

\* The most entries one thread can append within the bound on blocks.
MaxAppended == 3 * MaxBlocks

\* C5: every entry a thread appends is eventually sent on the channel,
\* unless the session halts (a send failed or the process faulted); the
\* thread's exit is what fairness of ExitFlush provides.
C5_EventuallySent ==
    \A t \in Threads : \A k \in 1..MaxAppended :
        (Len(appended[t]) >= k) ~> (halted \/ AllSent(t, k))

\* The same, as long as no thread has stored past the end of its buffer.
C5_EventuallySentInBounds ==
    \A t \in Threads : \A k \in 1..MaxAppended :
        (Len(appended[t]) >= k) ~> (halted \/ Overflowed \/ AllSent(t, k))

\* The threads that have added their counter to num_refs.
Added == {t \in Threads : pc[t] \in {"exit_unlock", "freed"}}
InAdd(t) == pc[t] \in {"exit_load", "exit_store", "exit_unlock"}

RECURSIVE SumRefs(_)
SumRefs(S) ==
    IF S = {} THEN 0
    ELSE LET t == CHOOSE x \in S : TRUE
         IN  data_num_refs[t] + SumRefs(S \ {t})

\* C6: no two threads are in the add of the exit handler at the same time,
\* the threads in it hold the mutex, num_refs is at every moment the sum of
\* the counters of the threads that have done their add, and so, once all
\* threads have exited, the sum of the final counters of all of them.
C6_CounterIsSum ==
    /\ \A t, u \in Threads : InAdd(t) /\ InAdd(u) => t = u
    /\ \A t \in Threads : InAdd(t) => mutex = t
    /\ num_refs = SumRefs(Added)
    /\ (\A t \in Threads : pc[t] \in {"uninit", "freed"})
           => num_refs = SumRefs({t \in Threads : pc[t] = "freed"})

\* Every thread has exited, each with a counter of its own, and num_refs
\* was logged.
C6_Witness ==
    /\ \A t \in Threads : pc[t] = "freed" /\ data_num_refs[t] > 1
    /\ logged = num_refs

\* Thread t runs the inline code of the next instruction of its block to
\* the end in this step.
InstrStep(t) ==
    /\ pc[t] = "active"
    /\ code[t] # <<>>
    /\ code'[t] = Tail(code[t])

\* One entry of the given type per memory operand of ops, in order.
RECURSIVE C7_OpEntries(_, _)
C7_OpEntries(ops, type) ==
    IF ops = <<>> THEN <<>>
    ELSE (IF Head(ops).mem
          THEN <<[type |-> type, size |-> Head(ops).size, addr |-> Head(ops).addr]>>
          ELSE <<>>)
         \o C7_OpEntries(Tail(ops), type)

C7_Expected(i) == C7_OpEntries(i.srcs, "READ") \o C7_OpEntries(i.dsts, "WRITE")

\* C7: running an application instruction appends exactly one READ entry
\* per memory source, in source order, then one WRITE entry per memory
\* destination, in destination order, each with
\* the operand's size and address; they occupy the consecutive slots from
\* the old cursor on, and nothing else is stored (nothing at all for an
\* instruction that is not instrumented).
C7_Act ==
    \A t \in Threads :
        InstrStep(t) =>
            LET i == Instr[Head(code[t]).ins]
                ex == IF i.app THEN C7_Expected(i) ELSE <<>>
                p == buf_ptr[t]
            IN  /\ appended'[t] = appended[t] \o ex
                /\ \A j \in 1..Len(ex) :
                       MemRead(buf', wild', adj', t, p + j - 1) = ex[j]
                /\ \A s \in Slots :
                       s # 0 /\ (s < p \/ s >= p + Len(ex)) => buf'[t][s] = buf[t][s]

\* C7: every step that runs an instruction appends exactly its READ and
\* then its WRITE entries.
C7_EntriesPerInstruction == [][C7_Act]_vars

\* A thread has run the string move: its latest entries are the READ of
\* the source followed by the WRITE of the destination.
C7_Witness ==
    \E t \in Threads :
        /\ Len(appended[t]) >= 2
        /\ SubSeq(appended[t], Len(appended[t]) - 1, Len(appended[t]))
               = <<Entry("READ", 8, 20), Entry("WRITE", 8, 10)>>

\* Thread t completes a write of a main message in this step.
MainSendStep(t) ==
    /\ Len(chan') > Len(chan)
    /\ chan'[Len(chan')].from = t
    /\ chan'[Len(chan')].kind = "main"
    /\ Len(chan'[Len(chan')].recs) = chan'[Len(chan')].req

\* C8: every main message starts with the THREAD entry of the sending
\* thread (size of a thread id, its thread id), written into slot 0 at that
\* flush, and is followed only by the READ/WRITE entries the thread
\* appended since its previous performed flush; it holds no PID entry and
\* no second THREAD entry.
C8_Act ==
    \A t \in Threads :
        MainSendStep(t) =>
            LET m == chan'[Len(chan')]
            IN  /\ m.recs[1] = Entry("THREAD", SizeofThreadId, dr_get_thread_id(t))
                /\ buf'[t][0] = m.recs[1]
                /\ \A i \in 2..Len(m.recs) : IsRW(m.recs[i])
                /\ Tail(m.recs)
                       = SubSeq(appended'[t], Len(SentRW(t)) + 1, Len(appended'[t]))

\* C8: every main message is the sender's THREAD header and then only its
\* READ/WRITE entries since the previous flush.
C8_MainMessageShape == [][C8_Act]_vars

\* The same, as long as no thread has stored past the end of its buffer.
C8_Act_InBounds == ~Overflowed' => C8_Act
C8_MainMessageShapeInBounds == [][C8_Act_InBounds]_vars

\* A write call that transferred fewer records than requested.
Short(m) == Len(m.recs) < m.req

\* C9: a write that transfers less than requested halts the session at
\* that point: it is the last thing on the channel, the thread's cursor is
\* not reset (after a short main write it still spans the requested
\* range), nothing changes once the session is halted, and as long as the
\* session runs every write so far was complete.
C9_Inv ==
    /\ \A i \in 1..Len(chan) :
           Short(chan[i]) =>
               /\ halted
               /\ i = Len(chan)
               /\ pc[chan[i].from] = "active"
               /\ chan[i].kind = "main" => buf_ptr[chan[i].from] = chan[i].req
               /\ chan[i].kind = "reg" => last_flush[chan[i].from] = "failed"
    /\ ~halted => \A i \in 1..Len(chan) : ~Short(chan[i])

C9_Act ==
    /\ halted => UNCHANGED vars
    /\ \A t \in Threads :
           Len(chan') > Len(chan) /\ chan'[Len(chan')].from = t /\ Short(chan'[Len(chan')])
               => /\ halted'
                  /\ buf_ptr'[t] >= buf_ptr[t]
                  /\ buf_ptr'[t] > BUF_HDR_SLOTS \/ buf_ptr[t] = BUF_HDR_SLOTS

C10_Act ==
    \A t \in Threads :
        /\ pc'[t] # pc[t] =>
             \/ pc[t] = "uninit" /\ pc'[t] = "active"
             \/ /\ pc[t] = "active" /\ pc'[t] = "exit_lock"
                /\ code[t] = <<>>
                /\ last_flush'[t] = "sent"
                /\ chan'[Len(chan')].from = t /\ Len(chan') > Len(chan)
                /\ num_refs' = num_refs
             \/ pc[t] = "exit_lock" /\ pc'[t] = "exit_load" /\ num_refs' = num_refs
             \/ pc[t] = "exit_load" /\ pc'[t] = "exit_store" /\ num_refs' = num_refs
             \/ /\ pc[t] = "exit_store" /\ pc'[t] = "exit_unlock"
                /\ num_refs' = num_refs + data_num_refs[t]
             \/ pc[t] = "exit_unlock" /\ pc'[t] = "freed" /\ num_refs' = num_refs
        /\ pc[t] \notin {"uninit", "active"} =>
             /\ appended'[t] = appended[t]
             /\ FromT(t)' = FromT(t)
             /\ buf_ptr'[t] = buf_ptr[t]
        /\ pc[t] = "freed" => buf'[t] = buf[t] /\ pc'[t] = "freed"

\* C10: every step moves each buffer forward in its lifecycle only.
C10_Lifecycle == [][C10_Act]_vars

\* A thread went through its whole lifecycle and its counter was folded.
C10_Witness ==
    \E t \in Threads : pc[t] = "freed" /\ data_num_refs[t] > 0 /\ num_refs > 0

\* What holds before the pipe is opened, after it is closed, and once
\* num_refs has been logged.
C11_Inv ==
    /\ pipe = "unopened" =>
           /\ chan = <<>>
           /\ \A t \in Threads : pc[t] = "uninit"
    /\ pipe = "closed" =>
           /\ \A t \in Threads : pc[t] \in {"uninit", "freed"}
           /\ \A t \in Threads : pc[t] = "freed" => last_flush[t] = "sent"
           /\ mutex = 0
    /\ logged # -1 =>
           /\ pipe = "closed"
           /\ logged = num_refs
           /\ logged = SumRefs({t \in Threads : pc[t] = "freed"})

\* The pipe only moves unopened, open, closed; writes and thread events
\* happen while it is open; the log is written by the step that closes it.
C11_Act ==
    /\ pipe' # pipe =>
           \/ pipe = "unopened" /\ pipe' = "open"
           \/ pipe = "open" /\ pipe' = "closed" /\ logged = -1 /\ logged' = num_refs
    /\ chan' # chan => pipe = "open" /\ pipe' = "open"
    /\ pc' # pc => pipe = "open" /\ pipe' = "open"
    /\ logged' # logged => pipe = "open" /\ pipe' = "closed"

\* C11: the pipe is opened once, before any thread starts, and closed
\* once, by the shutdown handler, after every started thread has done its
\* exit flush and its fold; nothing is written on it before it is opened or
\* after it is closed, and num_refs is logged only when every fold is done.
C11_ChannelLifecycle == [] C11_Inv /\ [][C11_Act]_vars

\* The process has shut down after all its threads ran and exited.
C11_Witness ==
    /\ pipe = "closed"
    /\ \A t \in Threads : pc[t] = "freed" /\ appended[t] # <<>>
    /\ logged > 0

\* An application instruction with a memory operand.
C12_Qualifying(i) ==
    /\ i.app
    /\ \/ \E k \in 1..Len(i.srcs) : i.srcs[k].mem
       \/ \E k \in 1..Len(i.dsts) : i.dsts[k].mem

\* The instructions on which the clean call is not placed.
C12_Suppressed(a, i) == a = "ARM" /\ (i.predicated \/ i.exclusive_store)

\* The positions of a planned block that carry the clean call.
C12_Calls(plan) == {k \in 1..Len(plan) : plan[k].call}

C12_Min(S) == CHOOSE k \in S : \A j \in S : k <= j

\* Thread t has its next basic block instrumented in this step.
BlockStep(t) == code[t] = <<>> /\ code'[t] # <<>>

C12_Act_Original ==
    \A t \in Threads :
        BlockStep(t) =>
            LET plan == code'[t]
                Q == {k \in 1..Len(plan) : C12_Qualifying(Instr[plan[k].ins])}
            IN  C12_Calls(plan) = IF Q = {} THEN {} ELSE {C12_Min(Q)}

\* C12 as stated: every instrumented block that has a qualifying
\* instruction gets exactly one clean call, on its first qualifying
\* instruction.
C12_ExactlyOneOnFirst == [][C12_Act_Original]_vars

C12_Act ==
    \A t \in Threads :
        BlockStep(t) =>
            LET plan == code'[t]
                E == {k \in 1..Len(plan) :
                        /\ C12_Qualifying(Instr[plan[k].ins])
                        /\ ~C12_Suppressed(arch, Instr[plan[k].ins])}
            IN  C12_Calls(plan) = IF E = {} THEN {} ELSE {C12_Min(E)}

\* C12 as amended: a block gets at most one clean call, on its first
\* qualifying instruction that is not a predicated instruction or an
\* exclusive store of an ARM build, and none when it has no such
\* instruction.
C12_AtMostOneOnFirstEligible == [][C12_Act]_vars

\* An ARM block whose first qualifying instruction is predicated has just
\* been instrumented: the clean call sits on its second instruction, and the
\* third, which qualifies too, has none.
C12_Witness ==
    \E t \in Threads :
        /\ arch = "ARM"
        /\ Len(code[t]) = 3
        /\ code[t][1].ins = "LDP" /\ ~code[t][1].call
        /\ code[t][2].call
        /\ code[t][3].ins = "ST" /\ ~code[t][3].call

\* C13: the cursor of every active thread stays inside its buffer, from
\* just past the header slot up to the end of the buffer, so no entry is
\* stored past the end, whatever blocks the thread runs.
C13_CursorInBuffer ==
    /\ \A t \in Threads :
           pc[t] = "active" =>
               BUF_HDR_SLOTS <= buf_ptr[t] /\ buf_ptr[t] <= MAX_NUM_MEM_REFS
    /\ ~Overflowed

\* The same on an x86 build, where every block with a qualifying
\* instruction carries a clean call.
C13_CursorInBufferX86 == arch = "X86" => C13_CursorInBuffer

\* C14: a flush that is performed and whose writes are complete leaves
\* the thread's cursor just past the header slot and no user entry in the
\* buffer; so a thread never has more READ/WRITE records sent than it
\* appended, no entry goes out a second time.
C14_Act ==
    \A t \in Threads :
        MainSendStep(t) =>
            /\ buf_ptr'[t] = BUF_HDR_SLOTS
            /\ Pending(t)' = <<>>

C14_Inv == \A t \in Threads : Len(SentRW(t)) <= Len(appended[t])

C14_CursorResetAfterFlush == [][C14_Act]_vars /\ [] C14_Inv

\* A running thread whose clean call flushed: everything it appended has
\* been sent, once, and its buffer is empty again.
C14_Witness ==
    \E t \in Threads :
        /\ pc[t] = "active"
        /\ Len(MainOf(t)) = 1
        /\ appended[t] # <<>>
        /\ SentRW(t) = appended[t]
        /\ buf_ptr[t] = BUF_HDR_SLOTS

\* A clean call of thread t that finds the occupancy below half the capacity.
DeferredCallStep(t) ==
    CleanCallStep(t) /\ OccupancyAtCall(t) < MAX_NUM_MEM_REFS \div 2

\* C15: a deferred flush changes nothing: after the step the cursor is
\* where the inline code of the instruction left it, the buffer differs
\* from before only by that instruction's entries, the header slot
\* included, and the registered flag and the thread's counter are as before.
C15_Act ==
    \A t \in Threads :
        DeferredCallStep(t) =>
            LET ex == C7_Expected(Instr[Head(code[t]).ins])
                p == buf_ptr[t]
            IN  /\ buf_ptr'[t] = p + Len(ex)
                /\ \A s \in Slots :
                       buf'[t][s] = IF s >= p /\ s < p + Len(ex)
                                    THEN ex[s - p + 1] ELSE buf[t][s]
                /\ thread_registered'[t] = thread_registered[t]
                /\ data_num_refs'[t] = data_num_refs[t]

C15_DeferredIsNoOp == [][C15_Act]_vars

\* A thread whose first clean call was deferred: one entry is buffered,
\* the header slot was never written, the thread is not registered and has
\* counted nothing.
C15_Witness ==
    \E t \in Threads :
        /\ last_flush[t] = "deferred"
        /\ buf_ptr[t] = BUF_HDR_SLOTS + 1
        /\ buf[t][BUF_HDR_SLOTS] = Entry("READ", 4, 10)
        /\ buf[t][0] = Zero
        /\ ~thread_registered[t]
        /\ data_num_refs[t] = 0

\* The user entries in t's buffer when its clean call runs.
C16_UserEntriesAtCall(t) ==
    (buf_ptr[t] - BUF_HDR_SLOTS) + Len(C7_Expected(Instr[Head(code[t]).ins]))

\* C16: a clean call writes on the channel if and only if the user
\* entries plus the header slot are at least MAX_NUM_MEM_REFS / 2: with
\* MAX_NUM_MEM_REFS / 2 - 1 user entries the dump is performed, with one
\* fewer it is delayed.
C16_Act ==
    \A t \in Threads :
        CleanCallStep(t) =>
            /\ Len(chan') > Len(chan)
                   <=> C16_UserEntriesAtCall(t) + 1 >= MAX_NUM_MEM_REFS \div 2
            /\ C16_UserEntriesAtCall(t) = (MAX_NUM_MEM_REFS \div 2) - 1
                   => Len(chan') > Len(chan) /\ chan'[Len(chan')].from = t
            /\ C16_UserEntriesAtCall(t) = (MAX_NUM_MEM_REFS \div 2) - 2
                   => chan' = chan

C16_ThresholdBoundary == [][C16_Act]_vars

\* Both sides of the boundary: one thread's clean call was delayed with
\* MAX_NUM_MEM_REFS / 2 - 2 user entries, another's dumped a buffer of
\* exactly MAX_NUM_MEM_REFS / 2 - 1 user entries.
C16_Witness ==
    \E t, u \in Threads :
        /\ last_flush[u] = "deferred"
        /\ buf_ptr[u] - BUF_HDR_SLOTS = (MAX_NUM_MEM_REFS \div 2) - 2
        /\ FromT(u) = <<>>
        /\ pc[t] = "active"
        /\ Len(MainOf(t)) = 1
        /\ MainOf(t)[1].req = MAX_NUM_MEM_REFS \div 2

\* The number of memory operands for which inline code is inserted.
C17_K(i) ==
    IF i.app
    THEN Cardinality({k \in 1..Len(i.srcs) : i.srcs[k].mem})
         + Cardinality({k \in 1..Len(i.dsts) : i.dsts[k].mem})
    ELSE 0

\* C17: running an instruction with k memory operands stores k entries at
\* offsets 0..k-1 from the old cursor and then moves the cursor by exactly
\* k: that is the cursor after the step, or, when the instruction's clean
\* call dumped the buffer, the length of the range it handed to the
\* write. No slot below the old cursor is touched, so the entries of one
\* instruction never overlap those of an earlier one.
C17_Act ==
    \A t \in Threads :
        InstrStep(t) =>
            LET k == C17_K(Instr[Head(code[t]).ins])
                p == buf_ptr[t]
            IN  /\ IF chan' = chan
                   THEN buf_ptr'[t] = p + k
                   ELSE LET m == chan'[Len(chan')]
                        IN  /\ m.from = t
                            /\ m.kind = "main" => m.req = p + k
                            /\ m.kind = "reg" => buf_ptr'[t] = p + k
                /\ \A j \in 0..(k - 1) :
                       IsRW(MemRead(buf', wild', adj', t, p + j))
                /\ \A s \in 1..(p - 1) :
                       MemRead(buf', wild', adj', t, s) = MemRead(buf, wild, adj, t, s)
                /\ Len(appended'[t]) = Len(appended[t]) + k

C17_CursorAdvancesByK == [][C17_Act]_vars

\* A thread ran instructions with 2, 2 and 1 memory operands since its
\* flush: its cursor is 5 records further and each entry has its own slot.
C17_Witness ==
    \E t \in Threads :
        /\ Len(appended[t]) = 5
        /\ Len(SentRW(t)) = 0
        /\ buf_ptr[t] = BUF_HDR_SLOTS + 5
        /\ Pending(t) = appended[t]

\* C18: an instruction that qualifies gets its inline code whether or not
\* it carries the clean call; run without the clean call it appends all
\* its entries and moves the cursor by their number as any other, and
\* nothing else happens: nothing is sent, and the header slot, the flag and
\* the counter stay as they are.
C18_Act ==
    \A t \in Threads :
        /\ BlockStep(t) =>
               \A k \in 1..Len(code'[t]) :
                   code'[t][k].instrumented = C12_Qualifying(Instr[code'[t][k].ins])
        /\ InstrStep(t) /\ ~Head(code[t]).call
                        /\ C12_Qualifying(Instr[Head(code[t]).ins]) =>
               LET ex == C7_Expected(Instr[Head(code[t]).ins])
               IN  /\ appended'[t] = appended[t] \o ex
                   /\ buf_ptr'[t] = buf_ptr[t] + Len(ex)
                   /\ chan' = chan
                   /\ buf'[t][0] = buf[t][0]
                   /\ thread_registered' = thread_registered
                   /\ data_num_refs' = data_num_refs

C18_SuppressedStillLogs == [][C18_Act]_vars

\* An ARM thread ran a predicated load and an exclusive store, neither
\* with a clean call: their three entries are in its buffer.
C18_Witness ==
    \E t \in Threads :
        /\ arch = "ARM"
        /\ chan = <<>>
        /\ buf_ptr[t] = BUF_HDR_SLOTS + 3
        /\ Pending(t) = <<Entry("READ", 4, 10), Entry("READ", 4, 20),
                          Entry("WRITE", 4, 10)>>

\* Thread t issues the write of a main message in this step.
MainWriteStep(t) ==
    /\ Len(chan') > Len(chan)
    /\ chan'[Len(chan')].from = t
    /\ chan'[Len(chan')].kind = "main"

\* The counter moves only up, and only in a performed flush, by the
\* number of records of the main message.
C19_Act ==
    \A t \in Threads :
        /\ data_num_refs'[t] >= data_num_refs[t]
        /\ IF MainWriteStep(t)
           THEN data_num_refs'[t] = data_num_refs[t] + chan'[Len(chan')].req
           ELSE data_num_refs'[t] = data_num_refs[t]

\* While the session runs, a thread's counter is the number of READ/WRITE
\* entries it delivered plus the number of flushes it performed, and the
\* logged aggregate is the sum of that over the threads.
C19_Inv ==
    /\ ~halted =>
           \A t \in Threads :
               data_num_refs[t] = Len(SentRW(t)) + Len(MainOf(t))
    /\ logged # -1 =>
           logged = SumRefs({t \in Threads : pc[t] = "freed"})
           /\ \A t \in Threads :
                  pc[t] = "freed" =>
                      data_num_refs[t] = Len(SentRW(t)) + Len(MainOf(t))

\* C19: the per-thread counter never decreases; each performed flush
\* adds the number of records of its main message, the READ/WRITE entries
\* sent plus one for the header; so the final counter of a thread, and the
\* aggregate, count the READ/WRITE entries delivered plus the flushes.
C19_CounterCountsHeader == [][C19_Act]_vars /\ [] C19_Inv

\* The same, as long as no thread has stored past the end of its buffer.
C19_CounterCountsHeaderInBounds ==
    [][C19_Act]_vars /\ [] (~Overflowed => C19_Inv)

\* Thread t is the one that takes this step.
Actor(t) ==
    \/ code'[t] # code[t]
    \/ pc'[t] # pc[t]
    \/ appended'[t] # appended[t]
    \/ Len(chan') > Len(chan) /\ chan'[Len(chan')].from = t

C20_Act ==
    \A t \in Threads : \A u \in Threads \ {t} :
        Actor(t) =>
            /\ buf'[u] = buf[u]
            /\ buf_ptr'[u] = buf_ptr[u]
            /\ data_num_refs'[u] = data_num_refs[u]
            /\ thread_registered'[u] = thread_registered[u]

\* C20: a step of thread T, an append or a flush, leaves every other
\* thread's buffer contents, cursor, counter and registered flag as they
\* were.
C20_ExclusiveOwnership == [][C20_Act]_vars

\* The same, as long as no thread has stored past the end of its buffer.
C20_Act_InBounds == ~Overflowed' => C20_Act
C20_ExclusiveOwnershipInBounds == [][C20_Act_InBounds]_vars

\* C21: an instruction that is not an application instruction, or has no
\* memory operand, gets no inline code and no clean call, and leaves the
\* block's clean_call_inserted flag as it found it; running it appends
\* nothing, leaves the cursor and the buffers alone and sends nothing.
C21_Act ==
    \A t \in Threads :
        /\ BlockStep(t) =>
               \A k \in 1..Len(code'[t]) :
                   ~C12_Qualifying(Instr[code'[t][k].ins]) =>
                       /\ ~code'[t][k].instrumented
                       /\ ~code'[t][k].call
                       /\ \A f \in BOOLEAN :
                              event_app_instruction(arch, Instr[code'[t][k].ins], f)
                                  .clean_call_inserted = f
        /\ InstrStep(t) /\ ~C12_Qualifying(Instr[Head(code[t]).ins]) =>
               /\ appended' = appended
               /\ buf_ptr' = buf_ptr
               /\ buf' = buf
               /\ wild' = wild
               /\ chan' = chan
               /\ data_num_refs' = data_num_refs
               /\ thread_registered' = thread_registered

C21_SkippedInstructions == [][C21_Act]_vars

\* A thread has run the non-application instruction that opens a block,
\* which has a memory operand: nothing was appended and the cursor is where
\* it started.
C21_Witness ==
    \E t \in Threads :
        /\ Len(code[t]) = 2
        /\ code[t][1].ins = "LDP"
        /\ code[t][2].ins = "STX"
        /\ appended[t] = <<>>
        /\ buf_ptr[t] = BUF_HDR_SLOTS

\* C22: the step in which a thread starts leaves its cursor just past
\* the header slot with no user entry in the buffer, its counter at 0, its
\* registered flag false, and nothing sent on the channel for it.
C22_Act ==
    \A t \in Threads :
        pc[t] = "uninit" /\ pc'[t] # "uninit" =>
            /\ pc'[t] = "active"
            /\ buf_ptr'[t] = BUF_HDR_SLOTS
            /\ Pending(t)' = <<>>
            /\ data_num_refs'[t] = 0
            /\ ~thread_registered'[t]
            /\ FromT(t)' = <<>>
            /\ appended'[t] = <<>>
            /\ chan' = chan

C22_InitialThreadState == [][C22_Act]_vars

\* The second thread has started, untouched, after the first one has
\* already appended and sent.
C22_Witness ==
    \E t, u \in Threads :
        /\ FromT(u) # <<>>
        /\ pc[u] = "active"
        /\ pc[t] = "active"
        /\ nblocks = 1
        /\ buf_ptr[t] = BUF_HDR_SLOTS
        /\ data_num_refs[t] = 0
        /\ ~thread_registered[t]
        /\ FromT(t) = <<>>

====
